---- MODULE Spec2Model ----
(***************************************************************************)
(* Model of the forward-thinking structural loop engine                    *)
(* (src/forward_thinking_engine.py): plans made of dependent steps, the    *)
(* plan-execute-evaluate loop of execute_plan, retries, the iteration      *)
(* budget, the execution history and the evaluation handlers.              *)
(*                                                                         *)
(* Identifiers.  A plan id "plan-000n" is modelled by the number n, a step *)
(* id "<plan_id>-step-00n" by the number n; a caller may supply any such   *)
(* identifier itself.  0 stands for "no identifier supplied" in the        *)
(* plan_id / step_id arguments (None or "" in the code, both falsy) and,   *)
(* inside depends_on, for an identifier that no step of the plan carries.  *)
(*                                                                         *)
(* Step actions.  The callable of a step is opaque to the engine; it is    *)
(* modelled by a script, as the closures of the unit tests are: the field  *)
(* fails is the number of invocations that raise before the first one that *)
(* returns (Always: every invocation raises) and calls counts the          *)
(* invocations made so far.                                                *)
(*                                                                         *)
(* The cache manager (src/cache_manager.py) is a second object of the same *)
(* process, with its own specification (CacheSpec); the engine and the     *)
(* cache do not touch each other's state.                                  *)
(*                                                                         *)
(* The autonomous agent (src/autonomous_agent.py) is a third object, with  *)
(* its own specification (AgentSpec): its priority task queue, the task    *)
(* processor coroutine and the retry of a failed task.  A task id is the   *)
(* number of the add_task call that queued the task; the Task objects live *)
(* in agent.tasks and the queue holds references to them.                  *)
(***************************************************************************)
EXTENDS Integers, Sequences, FiniteSets, TLC

\* ------------------------------------------------------------------ bounds
MaxSteps == 2        \* add_step calls over the life of the engine
MaxIter == 3         \* largest max_iterations given to the constructor
MaxRetries == 1      \* largest max_retries set on a step
MaxCalls == 2        \* execute_plan calls made by one task
MaxOps == 5          \* cache operations made by the caller of the cache

\* ----------------------------------------------------------- enumerations
\* StepStatus (SKIPPED exists in the enumeration and is never assigned)
PENDING == "pending"
IN_PROGRESS == "in_progress"
COMPLETED == "completed"
FAILED == "failed"
SKIPPED == "skipped"

\* PlanStatus; the two enumerations share the values "completed" and "failed"
DRAFT == "draft"
ACTIVE == "active"
REPLANNING == "replanning"

StepStatus == {PENDING, IN_PROGRESS, COMPLETED, FAILED, SKIPPED}
PlanStatus == {DRAFT, ACTIVE, COMPLETED, FAILED, REPLANNING}

\* the script value of an action that raises at every invocation
Always == MaxRetries + 2

\* the one task of the sequential specification
MainTask == 1
Tasks == {1, 2}

VARIABLES
    max_iterations,       \* ForwardThinkingEngine.max_iterations
    plans,                \* ForwardThinkingEngine.plans: plan id -> plan
    execution_history,    \* ForwardThinkingEngine.execution_history
    plan_counter,         \* ForwardThinkingEngine._plan_counter
    evaluation_handlers,  \* ForwardThinkingEngine._evaluation_handlers
    task,                 \* per task: the frame of its execute_plan call
    cache_manager,        \* the CacheManager: strategy and its LRU/LFU cache
    cache_call,           \* the latest call on the cache manager and its result
    agent                 \* the AutonomousAgent, its Task objects and its processor

vars == <<max_iterations, plans, execution_history, plan_counter,
          evaluation_handlers, task, cache_manager, cache_call, agent>>

\* what no operation of the engine touches: the argument of its constructor,
\* the cache manager and the agent; and the state of the engine, which no
\* operation of the cache or of the agent touches
fixed == <<max_iterations, cache_manager, cache_call, agent>>
engine == <<max_iterations, plans, execution_history, plan_counter,
            evaluation_handlers, task>>

\* --------------------------------------------------------------- helpers
Count(seq, P(_)) == Cardinality({i \in DOMAIN seq : P(seq[i])})

RECURSIVE SumOver(_, _)
SumOver(f, S) ==
    IF S = {} THEN 0
    ELSE LET x == CHOOSE y \in S : TRUE IN f[x] + SumOver(f, S \ {x})

StepsOf == {x \in (DOMAIN plans) \X (1..MaxSteps) : x[2] <= Len(plans[x[1]].steps)}
TotalSteps == Cardinality(StepsOf)
TotalDeps == SumOver([x \in StepsOf |-> Cardinality(plans[x[1]].steps[x[2]].depends_on)],
                     StepsOf)
TotalFailing == Cardinality({x \in StepsOf : plans[x[1]].steps[x[2]].fails > 0})

\* ------------------------------------------------------------ data model
\* PlanStep as add_step builds it (status, retry_count, completed_at from the
\* dataclass defaults); max_retries is the dataclass default unless the caller
\* sets the field afterwards, as test_execute_plan_permanent_failure does.
\* The clock behind completed_at is the iteration counter of the plan: the
\* field holds the number of the pass in which it was set, 0 for None.
PlanStep(sid, action, deps, mr, fails) ==
    [step_id |-> sid, action |-> action, depends_on |-> deps,
     status |-> PENDING, retry_count |-> 0, max_retries |-> mr,
     error |-> FALSE, completed_at |-> 0, fails |-> fails, calls |-> 0]

\* ExecutionPlan as create_plan builds it; log is the record of the action
\* invocations made for the plan's steps (what the tests' closures append).
\* The clock behind created_at is the count of create_plan calls.
ExecutionPlan(pid, maxIt, now) ==
    [plan_id |-> pid, steps |-> <<>>, status |-> DRAFT, created_at |-> now,
     iteration |-> 0, max_iterations |-> maxIt, completed_at |-> FALSE,
     log |-> <<>>]

NoEvaluation == [total_steps |-> 0, completed |-> 0, failed |-> 0, pending |-> 0,
                 all_completed |-> FALSE, has_failures |-> FALSE,
                 can_continue |-> FALSE, needs_replanning |-> FALSE]

NoResult == [status |-> "none", iterations |-> 0, evaluation |-> NoEvaluation]

\* notified is the record of the handler calls made by the execute_plan call;
\* overlapped tells that the call began while a call of another task was
\* under way; began is the status the call found the plan in
IdleFrame == [pc |-> "idle", plan_id |-> 0, idx |-> 0, executed |-> 0,
              evaluation |-> NoEvaluation, hidx |-> 0, calls |-> 0,
              passes |-> 0, exhausted |-> FALSE, unrecoverable |-> FALSE,
              notified |-> <<>>, overlapped |-> FALSE, began |-> "none",
              result |-> NoResult]

\* ----------------------------------------------------- pure computations
\* as EvaluatePlan, but every step neither COMPLETED nor FAILED counts as pending
EvaluatePlan_PendingIsTheRest(plan) ==
    LET total == Len(plan.steps)
        completed == Count(plan.steps, LAMBDA s : s.status = COMPLETED)
        failed == Count(plan.steps, LAMBDA s : s.status = FAILED)
        pending == total - completed - failed
    IN [total_steps |-> total, completed |-> completed, failed |-> failed,
        pending |-> pending,
        all_completed |-> (completed = total /\ total > 0),
        has_failures |-> (failed > 0),
        can_continue |-> (pending > 0),
        needs_replanning |-> (failed > 0 /\ pending > 0)]

\* as EvaluatePlan, but all_completed does not ask for a step to exist
EvaluatePlan_EmptyCompletes(plan) ==
    LET total == Len(plan.steps)
        completed == Count(plan.steps, LAMBDA s : s.status = COMPLETED)
        failed == Count(plan.steps, LAMBDA s : s.status = FAILED)
        pending == Count(plan.steps, LAMBDA s : s.status = PENDING)
    IN [total_steps |-> total, completed |-> completed, failed |-> failed,
        pending |-> pending,
        all_completed |-> (completed = total),
        has_failures |-> (failed > 0),
        can_continue |-> (pending > 0),
        needs_replanning |-> (failed > 0 /\ pending > 0)]

\* _evaluate_plan (the progress ratio is derived from completed and total)
EvaluatePlan(plan) ==
    LET total == Len(plan.steps)
        completed == Count(plan.steps, LAMBDA s : s.status = COMPLETED)
        failed == Count(plan.steps, LAMBDA s : s.status = FAILED)
        pending == Count(plan.steps, LAMBDA s : s.status = PENDING)
    IN [total_steps |-> total, completed |-> completed, failed |-> failed,
        pending |-> pending,
        all_completed |-> (completed = total /\ total > 0),
        has_failures |-> (failed > 0),
        can_continue |-> (pending > 0),
        needs_replanning |-> (failed > 0 /\ pending > 0)]

\* step_map = {s.step_id: s for s in plan.steps}: a later step with the same
\* identifier replaces an earlier one.  The index of the step an identifier
\* resolves to, 0 when no step carries it.
StepMap(plan, id) ==
    LET hits == {i \in DOMAIN plan.steps : plan.steps[i].step_id = id}
    IN IF hits = {} THEN 0 ELSE CHOOSE i \in hits : \A j \in hits : j <= i

\* as DependenciesSatisfied, but an identifier no step carries is passed over
DependenciesSatisfied_SkipsMissing(plan, step) ==
    \A dep_id \in step.depends_on :
        \/ StepMap(plan, dep_id) = 0
        \/ plan.steps[StepMap(plan, dep_id)].status = COMPLETED

\* as DependenciesSatisfied, but a dependency that has FAILED counts as met
DependenciesSatisfied_AcceptsFailed(plan, step) ==
    \A dep_id \in step.depends_on :
        /\ StepMap(plan, dep_id) # 0
        /\ plan.steps[StepMap(plan, dep_id)].status \in {COMPLETED, FAILED}

\* _dependencies_satisfied
DependenciesSatisfied(plan, step) ==
    \A dep_id \in step.depends_on :
        /\ StepMap(plan, dep_id) # 0
        /\ plan.steps[StepMap(plan, dep_id)].status = COMPLETED

\* as Ready, without the test of the dependencies
Ready_IgnoresDependencies(plan, step) ==
    /\ step.status = PENDING

\* as Ready, but a FAILED step is taken up again
Ready_RetriesFailed(plan, step) ==
    /\ step.status \in {PENDING, FAILED}
    /\ DependenciesSatisfied(plan, step)

\* the two tests of the scan of _execute_ready_steps: the step is executed
\* unless one of them says `continue`
Ready(plan, step) ==
    /\ step.status = PENDING
    /\ DependenciesSatisfied(plan, step)

\* as PassOutcome, but replanning is entered whenever a step is PENDING
PassOutcome_ReplansOnPending(evaluation) ==
    IF evaluation.all_completed THEN "completed"
    ELSE IF evaluation.has_failures /\ ~evaluation.can_continue THEN "failed"
    ELSE IF evaluation.can_continue THEN "replanning"
    ELSE "continue"

\* as PassOutcome, without the unrecoverable-failure exit
PassOutcome_NoUnrecoverable(evaluation) ==
    IF evaluation.all_completed THEN "completed"
    ELSE IF evaluation.needs_replanning THEN "replanning"
    ELSE "continue"

\* phases 3 and 4 of a pass: what execute_plan does with the evaluation
PassOutcome(evaluation) ==
    IF evaluation.all_completed THEN "completed"
    ELSE IF evaluation.has_failures /\ ~evaluation.can_continue THEN "failed"
    ELSE IF evaluation.needs_replanning THEN "replanning"
    ELSE "continue"

\* _get_plan_result
GetPlanResult(plan) ==
    [status |-> plan.status, iterations |-> plan.iteration,
     evaluation |-> EvaluatePlan(plan)]

\* ------------------------------------------------------------- the caller
CallerTurn(t) == task[t].pc \in {"idle", "done", "raised"}

\* ForwardThinkingEngine.create_plan(goal, plan_id=pid0), steps omitted
CreatePlan(pid0) ==
    /\ plan_counter' = plan_counter + 1
    /\ LET pid == IF pid0 # 0 THEN pid0 ELSE plan_counter + 1
       IN plans' = [p \in DOMAIN plans \cup {pid} |->
                       IF p = pid
                       THEN ExecutionPlan(pid, max_iterations, plan_counter + 1)
                       ELSE plans[p]]
    /\ UNCHANGED <<fixed, execution_history, evaluation_handlers, task>>

\* ForwardThinkingEngine.add_step on a registered plan
AddStep(plan_id, sid0, action, deps, mr, fails) ==
    /\ plan_id \in DOMAIN plans
    /\ LET plan == plans[plan_id]
           sid == IF sid0 # 0 THEN sid0 ELSE Len(plan.steps) + 1
           step == PlanStep(sid, action, deps, mr, fails)
       IN plans' = [plans EXCEPT ![plan_id].steps = Append(@, step)]
    /\ UNCHANGED <<fixed, execution_history, plan_counter,
                   evaluation_handlers, task>>

\* ForwardThinkingEngine.add_step on a plan id that is not registered: the
\* ValueError reaches the caller
AddStepNotFound(t, plan_id) ==
    /\ CallerTurn(t)
    /\ plan_id \notin DOMAIN plans
    /\ task' = [task EXCEPT ![t] = [IdleFrame EXCEPT
                    !.pc = "raised", !.plan_id = plan_id,
                    !.calls = task[t].calls]]
    /\ UNCHANGED <<fixed, plans, execution_history, plan_counter,
                   evaluation_handlers>>

\* ForwardThinkingEngine.on_evaluation
OnEvaluation(handler) ==
    /\ evaluation_handlers' = Append(evaluation_handlers, handler)
    /\ UNCHANGED <<fixed, plans, execution_history, plan_counter, task>>

\* ------------------------------------------------------------ execute_plan
\* as ExecutePlan, but an unregistered identifier gets a fresh plan to run
ExecutePlan_RegistersMissing(t, plan_id) ==
    /\ CallerTurn(t)
    /\ task[t].calls < MaxCalls
    /\ plans' = [p \in DOMAIN plans \cup {plan_id} |->
                    IF p \in DOMAIN plans THEN [plans[p] EXCEPT !.status = ACTIVE]
                    ELSE [ExecutionPlan(p, max_iterations, plan_counter)
                              EXCEPT !.status = ACTIVE]]
    /\ task' = [task EXCEPT ![t] = [IdleFrame EXCEPT
                    !.pc = "loop", !.plan_id = plan_id,
                    !.calls = task[t].calls + 1,
                    !.overlapped = \E u \in Tasks \ {t} : ~CallerTurn(u)]]
    /\ UNCHANGED <<fixed, execution_history, plan_counter,
                   evaluation_handlers>>

\* entry of execute_plan: the lookup, then status = ACTIVE
ExecutePlan(t, plan_id) ==
    /\ CallerTurn(t)
    /\ task[t].calls < MaxCalls
    /\ IF plan_id \notin DOMAIN plans
       THEN /\ task' = [task EXCEPT ![t] = [IdleFrame EXCEPT
                           !.pc = "raised", !.plan_id = plan_id,
                           !.calls = task[t].calls + 1]]
            /\ UNCHANGED plans
       ELSE /\ plans' = [plans EXCEPT ![plan_id].status = ACTIVE]
            /\ task' = [task EXCEPT ![t] = [IdleFrame EXCEPT
                           !.pc = "loop", !.plan_id = plan_id,
                           !.calls = task[t].calls + 1,
                           !.overlapped = \E u \in Tasks \ {t} : ~CallerTurn(u),
                           !.began = plans[plan_id].status]]
    /\ UNCHANGED <<fixed, execution_history, plan_counter,
                   evaluation_handlers>>

\* as LoopTest, with <= for <
LoopTest_OffByOne(t) ==
    /\ task[t].pc = "loop"
    /\ LET pid == task[t].plan_id
           plan == plans[pid]
       IN IF plan.iteration <= plan.max_iterations
          THEN /\ plans' = [plans EXCEPT ![pid].iteration = @ + 1]
               /\ task' = [task EXCEPT ![t].pc = "scan", ![t].idx = 1,
                                       ![t].executed = 0,
                                       ![t].passes = @ + 1]
          ELSE /\ task' = [task EXCEPT ![t].pc = "final"]
               /\ UNCHANGED plans
    /\ UNCHANGED <<fixed, execution_history, plan_counter,
                   evaluation_handlers>>

\* as LoopTest, leaving the loop one pass early
LoopTest_StopsEarly(t) ==
    /\ task[t].pc = "loop"
    /\ LET pid == task[t].plan_id
           plan == plans[pid]
       IN IF plan.iteration + 1 < plan.max_iterations
          THEN /\ plans' = [plans EXCEPT ![pid].iteration = @ + 1]
               /\ task' = [task EXCEPT ![t].pc = "scan", ![t].idx = 1,
                                       ![t].executed = 0,
                                       ![t].passes = @ + 1]
          ELSE /\ task' = [task EXCEPT ![t].pc = "final"]
               /\ UNCHANGED plans
    /\ UNCHANGED <<fixed, execution_history, plan_counter,
                   evaluation_handlers>>

\* as LoopTest, but the counter raised belongs to the engine: every plan's
\* iteration goes up with each pass of any call
LoopTest_SharedCounter(t) ==
    /\ task[t].pc = "loop"
    /\ LET pid == task[t].plan_id
           plan == plans[pid]
       IN IF plan.iteration < plan.max_iterations
          THEN /\ plans' = [p \in DOMAIN plans |->
                               [plans[p] EXCEPT !.iteration = @ + 1]]
               /\ task' = [task EXCEPT ![t].pc = "scan", ![t].idx = 1,
                                       ![t].executed = 0,
                                       ![t].passes = @ + 1]
          ELSE /\ task' = [task EXCEPT ![t].pc = "final"]
               /\ UNCHANGED plans
    /\ UNCHANGED <<fixed, execution_history, plan_counter,
                   evaluation_handlers>>

\* while plan.iteration < plan.max_iterations: plan.iteration += 1
LoopTest(t) ==
    /\ task[t].pc = "loop"
    /\ LET pid == task[t].plan_id
           plan == plans[pid]
       IN IF plan.iteration < plan.max_iterations
          THEN /\ plans' = [plans EXCEPT ![pid].iteration = @ + 1]
               /\ task' = [task EXCEPT ![t].pc = "scan", ![t].idx = 1,
                                       ![t].executed = 0,
                                       ![t].passes = @ + 1]
          ELSE /\ task' = [task EXCEPT ![t].pc = "final"]
               /\ UNCHANGED plans
    /\ UNCHANGED <<fixed, execution_history, plan_counter,
                   evaluation_handlers>>

\* as ScanStep, but the call is suspended between the test of the status and
\* the switch to IN_PROGRESS: a ready step is left PENDING while it is awaited
ScanStep_SuspendsBeforeSwitch(t) ==
    /\ task[t].pc = "scan"
    /\ LET pid == task[t].plan_id
           plan == plans[pid]
           i == task[t].idx
       IN /\ i <= Len(plan.steps)
          /\ IF ~Ready(plan, plan.steps[i])
             THEN /\ task' = [task EXCEPT ![t].idx = i + 1]
                  /\ UNCHANGED plans
             ELSE /\ task' = [task EXCEPT ![t].pc = "action"]
                  /\ UNCHANGED plans
    /\ UNCHANGED <<fixed, execution_history, plan_counter,
                   evaluation_handlers>>

\* as ScanStep, but the action of a ready step is started and not awaited:
\* the scan goes on to the next step at once
ScanStep_DoesNotAwait(t) ==
    /\ task[t].pc = "scan"
    /\ LET pid == task[t].plan_id
           plan == plans[pid]
           i == task[t].idx
       IN /\ i <= Len(plan.steps)
          /\ IF ~Ready(plan, plan.steps[i])
             THEN /\ task' = [task EXCEPT ![t].idx = i + 1]
                  /\ UNCHANGED plans
             ELSE /\ plans' = [plans EXCEPT ![pid].steps[i].status = IN_PROGRESS]
                  /\ task' = [task EXCEPT ![t].idx = i + 1,
                                          ![t].executed = @ + 1]
    /\ UNCHANGED <<fixed, execution_history, plan_counter,
                   evaluation_handlers>>

\* one turn of `for step in plan.steps` in _execute_ready_steps, up to and
\* including the first two statements of _execute_step for a ready step
ScanStep(t) ==
    /\ task[t].pc = "scan"
    /\ LET pid == task[t].plan_id
           plan == plans[pid]
           i == task[t].idx
       IN /\ i <= Len(plan.steps)
          /\ IF ~Ready(plan, plan.steps[i])
             THEN /\ task' = [task EXCEPT ![t].idx = i + 1]
                  /\ UNCHANGED plans
             ELSE /\ plans' = [plans EXCEPT ![pid].steps[i].status = IN_PROGRESS]
                  /\ task' = [task EXCEPT ![t].pc = "action"]
    /\ UNCHANGED <<fixed, execution_history, plan_counter,
                   evaluation_handlers>>

\* as StepFailure, with one retry too many
StepFailure_LateFail(step) ==
    LET rc == step.retry_count + 1
    IN [step EXCEPT !.error = TRUE, !.retry_count = rc,
                    !.status = IF rc <= step.max_retries + 1 THEN PENDING ELSE FAILED]

\* as StepFailure, with < for <=
StepFailure_Strict(step) ==
    LET rc == step.retry_count + 1
    IN [step EXCEPT !.error = TRUE, !.retry_count = rc,
                    !.status = IF rc < step.max_retries THEN PENDING ELSE FAILED]

\* the except branch of _execute_step
StepFailure(step) ==
    LET rc == step.retry_count + 1
    IN [step EXCEPT !.error = TRUE, !.retry_count = rc,
                    !.status = IF rc <= step.max_retries THEN PENDING ELSE FAILED]

\* the try branch of _execute_step when the action returns (or is absent)
StepSuccess(step) == [step EXCEPT !.status = COMPLETED]

\* completed_at is set when the step ends COMPLETED or FAILED
Stamp(step, now) ==
    [step EXCEPT !.completed_at = IF step.status \in {COMPLETED, FAILED}
                                  THEN now ELSE @]

\* as ExecuteStep, without the test for a missing action: calling None raises
ExecuteStep_CallsNone(plan, i) ==
    LET step == plan.steps[i]
        invoked == [step EXCEPT !.calls = @ + 1]
        raises == step.calls + 1 <= step.fails
        entry == [step |-> i, iteration |-> plan.iteration, ok |-> ~raises]
    IN IF step.action = "none"
       THEN [plan EXCEPT !.steps[i] = Stamp(StepFailure(step), plan.iteration)]
       ELSE [plan EXCEPT !.steps[i] = Stamp(IF raises THEN StepFailure(invoked)
                                             ELSE StepSuccess(invoked),
                                             plan.iteration),
                         !.log = Append(@, entry)]

\* the rest of _execute_step for step i of the plan: the action is invoked and
\* resolves; a step without action completes with a placeholder result
ExecuteStep(plan, i) ==
    LET step == plan.steps[i]
        invoked == [step EXCEPT !.calls = @ + 1]
        raises == step.calls + 1 <= step.fails
        entry == [step |-> i, iteration |-> plan.iteration, ok |-> ~raises]
    IN IF step.action = "none"
       THEN [plan EXCEPT !.steps[i] = Stamp(StepSuccess(step), plan.iteration)]
       ELSE [plan EXCEPT !.steps[i] = Stamp(IF raises THEN StepFailure(invoked)
                                             ELSE StepSuccess(invoked),
                                             plan.iteration),
                         !.log = Append(@, entry)]

\* as RunAction, but an exception of the action leaves execute_plan
RunAction_Propagates(t) ==
    /\ task[t].pc = "action"
    /\ LET pid == task[t].plan_id
           step == plans[pid].steps[task[t].idx]
           raises == step.action # "none" /\ step.calls + 1 <= step.fails
       IN IF raises
          THEN /\ plans' = [plans EXCEPT ![pid].steps[task[t].idx].calls = @ + 1]
               /\ task' = [task EXCEPT ![t].pc = "raised"]
          ELSE /\ plans' = [plans EXCEPT ![pid] = ExecuteStep(plans[pid], task[t].idx)]
               /\ task' = [task EXCEPT ![t].pc = "scan", ![t].idx = @ + 1,
                                       ![t].executed = @ + 1]
    /\ UNCHANGED <<fixed, execution_history, plan_counter,
                   evaluation_handlers>>

\* as RunAction, but a step left PENDING by a failure is taken up again at
\* once, in the same scan
RunAction_RetriesAtOnce(t) ==
    /\ task[t].pc = "action"
    /\ LET pid == task[t].plan_id
           plan == ExecuteStep(plans[pid], task[t].idx)
       IN /\ plans' = [plans EXCEPT ![pid] = plan]
          /\ task' = [task EXCEPT
                 ![t].pc = "scan",
                 ![t].idx = IF plan.steps[task[t].idx].status = PENDING
                            THEN @ ELSE @ + 1,
                 ![t].executed = @ + 1]
    /\ UNCHANGED <<fixed, execution_history, plan_counter,
                   evaluation_handlers>>

\* as RunAction, but the scan ends after the first step executed
RunAction_OnePerPass(t) ==
    /\ task[t].pc = "action"
    /\ LET pid == task[t].plan_id
       IN /\ plans' = [plans EXCEPT ![pid] = ExecuteStep(plans[pid], task[t].idx)]
          /\ task' = [task EXCEPT ![t].pc = "scan",
                                  ![t].idx = Len(plans[pid].steps) + 1,
                                  ![t].executed = @ + 1]
    /\ UNCHANGED <<fixed, execution_history, plan_counter,
                   evaluation_handlers>>

\* _execute_step returns to the scan: executed += 1, next step
RunAction(t) ==
    /\ task[t].pc = "action"
    /\ LET pid == task[t].plan_id
       IN plans' = [plans EXCEPT ![pid] = ExecuteStep(plans[pid], task[t].idx)]
    /\ task' = [task EXCEPT ![t].pc = "scan", ![t].idx = @ + 1,
                            ![t].executed = @ + 1]
    /\ UNCHANGED <<fixed, execution_history, plan_counter,
                   evaluation_handlers>>

\* end of the scan, then phases 2 and 3 of the pass and the entry of phase 4:
\* evaluation, history entry, completion / unrecoverable failure / replanning
EvaluatePass(t) ==
    /\ task[t].pc = "scan"
    /\ LET pid == task[t].plan_id
           plan == plans[pid]
           evaluation == EvaluatePlan(plan)
           outcome == PassOutcome(evaluation)
       IN /\ task[t].idx > Len(plan.steps)
          /\ execution_history' = Append(execution_history,
                 [plan_id |-> pid, iteration |-> plan.iteration,
                  steps_executed |-> task[t].executed, evaluation |-> evaluation])
          /\ task' = [task EXCEPT
                 ![t].evaluation = evaluation,
                 ![t].pc = CASE outcome \in {"completed", "failed"} -> "final"
                             [] outcome = "replanning" -> "notify"
                             [] OTHER -> "loop",
                 ![t].hidx = IF outcome = "replanning" THEN 1 ELSE @,
                 ![t].unrecoverable = (outcome = "failed")]
          /\ plans' = [plans EXCEPT
                 ![pid].status = CASE outcome = "completed" -> COMPLETED
                                   [] outcome = "failed" -> FAILED
                                   [] outcome = "replanning" -> REPLANNING
                                   [] OTHER -> @,
                 ![pid].completed_at = (@ \/ outcome = "completed")]
    /\ UNCHANGED <<fixed, plan_counter, evaluation_handlers>>

\* what a handler call leaves behind in the record of the frame
Notification(t) ==
    [handler |-> task[t].hidx,
     raised |-> (evaluation_handlers[task[t].hidx] = "raises"),
     iteration |-> plans[task[t].plan_id].iteration,
     status |-> plans[task[t].plan_id].status]

\* as CallHandler, but the exception of a handler leaves execute_plan
CallHandler_Propagates(t) ==
    /\ task[t].pc = "notify"
    /\ task[t].hidx <= Len(evaluation_handlers)
    /\ task' = [task EXCEPT
           ![t].pc = IF evaluation_handlers[task[t].hidx] = "raises"
                     THEN "raised" ELSE @,
           ![t].hidx = @ + 1,
           ![t].notified = Append(@, Notification(t))]
    /\ UNCHANGED <<fixed, plans, execution_history, plan_counter,
                   evaluation_handlers>>

\* one turn of the loop of _notify_evaluation_handlers: the handler is called
\* and returns or raises, and an exception is logged and dropped
CallHandler(t) ==
    /\ task[t].pc = "notify"
    /\ task[t].hidx <= Len(evaluation_handlers)
    /\ task' = [task EXCEPT ![t].hidx = @ + 1,
                            ![t].notified = Append(@, Notification(t))]
    /\ UNCHANGED <<fixed, plans, execution_history, plan_counter,
                   evaluation_handlers>>

\* _notify_evaluation_handlers returns: plan.status = ACTIVE, next iteration
EndReplanning(t) ==
    /\ task[t].pc = "notify"
    /\ task[t].hidx > Len(evaluation_handlers)
    /\ plans' = [plans EXCEPT ![task[t].plan_id].status = ACTIVE]
    /\ task' = [task EXCEPT ![t].pc = "loop"]
    /\ UNCHANGED <<fixed, execution_history, plan_counter,
                   evaluation_handlers>>

\* as Finish, without the forced failure
Finish_NoForce(t) ==
    /\ task[t].pc = "final"
    /\ LET pid == task[t].plan_id
           forced == plans[pid].status = ACTIVE
           plan == [plans[pid] EXCEPT !.status = @]
       IN /\ plans' = [plans EXCEPT ![pid] = plan]
          /\ task' = [task EXCEPT ![t].pc = "done", ![t].exhausted = forced,
                                  ![t].result = GetPlanResult(plan)]
    /\ UNCHANGED <<fixed, execution_history, plan_counter,
                   evaluation_handlers>>

\* after the loop: a plan still ACTIVE is forced to FAILED; the summary is returned
Finish(t) ==
    /\ task[t].pc = "final"
    /\ LET pid == task[t].plan_id
           forced == plans[pid].status = ACTIVE
           plan == [plans[pid] EXCEPT !.status = IF forced THEN FAILED ELSE @]
       IN /\ plans' = [plans EXCEPT ![pid] = plan]
          /\ task' = [task EXCEPT ![t].pc = "done", ![t].exhausted = forced,
                                  ![t].result = GetPlanResult(plan)]
    /\ UNCHANGED <<fixed, execution_history, plan_counter,
                   evaluation_handlers>>

\* ------------------------------------------------------ cache_manager.py
\* None, the result of a get that misses; no value stored is None
None == 0

\* datetime.now(): the clock of the cache is the number of the call under way
Now == cache_call.n + 1

\* CacheEntry as its constructor builds it (no ttl: expires_at is None and
\* is_expired is False throughout)
CacheEntry(key, value) ==
    [key |-> key, value |-> value, last_accessed |-> Now, access_count |-> 0]

\* CacheEntry.touch
Touch(entry) == [entry EXCEPT !.last_accessed = Now, !.access_count = @ + 1]

\* LRUCache / LFUCache as their constructors build them: cache is the
\* (Ordered)Dict, its entries in iteration order, oldest insertion first
NewCache(max_size) == [max_size |-> max_size, cache |-> <<>>, hits |-> 0, misses |-> 0]

\* CacheManager(strategy, max_size)
CacheManager(strategy, max_size) == [strategy |-> strategy, cache |-> NewCache(max_size)]

\* key in self.cache, self.cache[key], del self.cache[key]
Has(c, key) == \E i \in DOMAIN c.cache : c.cache[i].key = key
EntryOf(c, key) == c.cache[CHOOSE i \in DOMAIN c.cache : c.cache[i].key = key]
Without(entries, key) == SelectSeq(entries, LAMBDA e : e.key # key)

\* as LRUGet, without move_to_end: a hit leaves the entry in its place
LRUGet_KeepsPlace(c, key) ==
    IF ~Has(c, key)
    THEN [cache |-> [c EXCEPT !.misses = @ + 1], result |-> None]
    ELSE LET entry == EntryOf(c, key)
         IN [cache |-> [c EXCEPT
                         !.cache = [i \in DOMAIN @ |->
                                       IF @[i].key = key THEN Touch(@[i]) ELSE @[i]],
                         !.hits = @ + 1],
             result |-> entry.value]

\* LRUCache.get: a hit moves the entry to the end
LRUGet(c, key) ==
    IF ~Has(c, key)
    THEN [cache |-> [c EXCEPT !.misses = @ + 1], result |-> None]
    ELSE LET entry == EntryOf(c, key)
         IN [cache |-> [c EXCEPT !.cache = Append(Without(@, key), Touch(entry)),
                                 !.hits = @ + 1],
             result |-> entry.value]

\* LRUCache.set: popitem(last=False) takes the first entry
LRUSet(c, key, value) ==
    LET added == Append(Without(c.cache, key), CacheEntry(key, value))
    IN [cache |-> [c EXCEPT !.cache = IF Len(added) > c.max_size
                                      THEN Tail(added) ELSE added],
        result |-> None]

\* LFUCache.get: a hit leaves the entry in its place
LFUGet(c, key) ==
    IF ~Has(c, key)
    THEN [cache |-> [c EXCEPT !.misses = @ + 1], result |-> None]
    ELSE LET entry == EntryOf(c, key)
         IN [cache |-> [c EXCEPT
                         !.cache = [i \in DOMAIN @ |->
                                       IF @[i].key = key THEN Touch(@[i]) ELSE @[i]],
                         !.hits = @ + 1],
             result |-> entry.value]

\* min(self.cache.items(), key=lambda x: x[1].access_count)[0]: the first
\* entry, in iteration order, of least access_count
LFUKey(entries) ==
    entries[CHOOSE i \in DOMAIN entries :
               \A j \in DOMAIN entries :
                   \/ entries[i].access_count < entries[j].access_count
                   \/ (entries[i].access_count = entries[j].access_count /\ i <= j)].key

\* LFUCache.set
LFUSet(c, key, value) ==
    LET added == Append(Without(c.cache, key), CacheEntry(key, value))
    IN [cache |-> [c EXCEPT !.cache = IF Len(added) > c.max_size
                                      THEN Without(added, LFUKey(added)) ELSE added],
        result |-> None]

\* LRUCache.delete, LFUCache.delete (the same code)
CacheDelete(c, key) ==
    [cache |-> [c EXCEPT !.cache = Without(@, key)], result |-> Has(c, key)]

\* LRUCache.clear, LFUCache.clear (the same code)
CacheClear(c) ==
    [cache |-> [c EXCEPT !.cache = <<>>, !.hits = 0, !.misses = 0], result |-> None]

\* the keys a cache holds
KeysOf(c) == {c.cache[i].key : i \in DOMAIN c.cache}

\* the caller's record of a call: its number, what it was, what it returned,
\* and for a set the keys it evicted (held before the call, or the key set,
\* and not held after it)
NoCall == [n |-> 0, op |-> "none", key |-> 0, value |-> None, result |-> None,
           evicted |-> {}]

CacheCall(op, key, value, outcome) ==
    /\ cache_call.n < MaxOps
    /\ cache_manager' = [cache_manager EXCEPT !.cache = outcome.cache]
    /\ cache_call' = [n |-> cache_call.n + 1, op |-> op, key |-> key,
                      value |-> value, result |-> outcome.result,
                      evicted |-> IF op = "set"
                                  THEN (KeysOf(cache_manager.cache) \cup {key})
                                           \ KeysOf(outcome.cache)
                                  ELSE {}]
    /\ UNCHANGED <<engine, agent>>

\* CacheManager.get, .set, .delete, .clear: each hands over to the cache of
\* the strategy
Get(key) ==
    CacheCall("get", key, None,
              IF cache_manager.strategy = "lru" THEN LRUGet(cache_manager.cache, key)
              ELSE LFUGet(cache_manager.cache, key))

Set(key, value) ==
    CacheCall("set", key, value,
              IF cache_manager.strategy = "lru"
              THEN LRUSet(cache_manager.cache, key, value)
              ELSE LFUSet(cache_manager.cache, key, value))

Delete(key) == CacheCall("delete", key, None, CacheDelete(cache_manager.cache, key))

Clear == CacheCall("clear", 0, None, CacheClear(cache_manager.cache))

\* ---------------------------------------------------- autonomous_agent.py
\* AgentState (PAUSED and ERROR exist in the enumeration and are never
\* assigned); AgentState.ACTIVE has the value of PlanStatus.ACTIVE
IDLE == "idle"
SHUTDOWN == "shutdown"

\* TaskPriority
LOW == 1
MEDIUM == 2
HIGH == 3
CRITICAL == 4

\* Task as the caller builds it (retry_count from the dataclass default); the
\* action is a script as for a step: fails invocations raise, calls counts
\* the invocations made
Task(task_id, priority, mr, fails) ==
    [task_id |-> task_id, priority |-> priority, retry_count |-> 0,
     max_retries |-> mr, fails |-> fails, calls |-> 0]

\* AutonomousAgent as its constructor builds it.  tasks holds the Task objects
\* the caller has made; processor is the _process_tasks coroutine: where it
\* stands (none: not created) and the task it holds
AutonomousAgent ==
    [state |-> IDLE, task_queue |-> <<>>, completed_tasks |-> <<>>,
     failed_tasks |-> <<>>, error_count |-> 0, tasks |-> <<>>,
     processor |-> [pc |-> "none", task |-> 0]]

\* the processor is at an await that has suspended it (or does not run): the
\* callers of the agent run at such moments only
ProcessorSuspended ==
    agent.processor.pc \in {"none", "created", "sleep", "action", "backoff", "ended"}

\* list.sort(key=lambda t: t.priority.value, reverse=True): a stable sort,
\* tasks of equal priority keep their order
RECURSIVE SortByPriority(_, _)
SortByPriority(tasks, queue) ==
    IF queue = <<>> THEN <<>>
    ELSE LET front == SortByPriority(tasks, SubSeq(queue, 1, Len(queue) - 1))
             last == queue[Len(queue)]
             k == Cardinality({i \in DOMAIN front :
                                 tasks[front[i]].priority >= tasks[last].priority})
         IN SubSeq(front, 1, k) \o <<last>> \o SubSeq(front, k + 1, Len(front))

\* AutonomousAgent.start: state = ACTIVE, the task processor is created (the
\* health monitor reads the lists and writes health_status only)
Start ==
    /\ agent.processor.pc = "none"
    /\ agent' = [agent EXCEPT !.state = ACTIVE, !.processor.pc = "created"]
    /\ UNCHANGED <<engine, cache_manager, cache_call>>

\* AutonomousAgent.stop
Stop ==
    /\ ProcessorSuspended
    /\ agent.state = ACTIVE
    /\ agent' = [agent EXCEPT !.state = SHUTDOWN]
    /\ UNCHANGED <<engine, cache_manager, cache_call>>

\* AutonomousAgent.add_task, for a Task the caller has just made
AddTask(priority, mr, fails) ==
    /\ ProcessorSuspended
    /\ LET task_id == Len(agent.tasks) + 1
           tasks == Append(agent.tasks, Task(task_id, priority, mr, fails))
       IN agent' = [agent EXCEPT
                       !.tasks = tasks,
                       !.task_queue = SortByPriority(tasks, Append(@, task_id))]
    /\ UNCHANGED <<engine, cache_manager, cache_call>>

\* one turn of the loop of _process_tasks, from where the coroutine resumes
\* to its next await: the action of the task popped (_execute_task up to the
\* await of the action) or the sleep of an idle turn
ProcessTasks ==
    /\ agent.processor.pc \in {"created", "sleep", "loop"}
    /\ agent' = IF agent.state # ACTIVE
                THEN [agent EXCEPT !.processor = [pc |-> "ended", task |-> 0]]
                ELSE IF agent.task_queue # <<>>
                THEN [agent EXCEPT
                         !.task_queue = Tail(@),
                         !.processor = [pc |-> "action", task |-> Head(agent.task_queue)]]
                ELSE [agent EXCEPT !.processor = [pc |-> "sleep", task |-> 0]]
    /\ UNCHANGED <<engine, cache_manager, cache_call>>

\* as ExecuteTask, with one retry more than max_retries
ExecuteTask_RetriesOnceMore ==
    /\ agent.processor.pc = "action"
    /\ LET id == agent.processor.task
           t == agent.tasks[id]
           raises == t.calls + 1 <= t.fails
           rc == t.retry_count + 1
       IN agent' =
            IF ~raises
            THEN [agent EXCEPT !.tasks[id].calls = @ + 1,
                               !.completed_tasks = Append(@, id),
                               !.processor = [pc |-> "loop", task |-> 0]]
            ELSE IF rc <= t.max_retries + 1
            THEN [agent EXCEPT !.tasks[id].calls = @ + 1,
                               !.tasks[id].retry_count = rc,
                               !.processor.pc = "backoff"]
            ELSE [agent EXCEPT !.tasks[id].calls = @ + 1,
                               !.tasks[id].retry_count = rc,
                               !.failed_tasks = Append(@, id),
                               !.error_count = @ + 1,
                               !.processor = [pc |-> "loop", task |-> 0]]
    /\ UNCHANGED <<engine, cache_manager, cache_call>>

\* _execute_task from the return of the action to the next await: the task
\* is recorded as completed, or retry_count is raised and the task either
\* waits for its retry (asyncio.sleep(wait_time)) or is recorded as failed
ExecuteTask ==
    /\ agent.processor.pc = "action"
    /\ LET id == agent.processor.task
           t == agent.tasks[id]
           raises == t.calls + 1 <= t.fails
           rc == t.retry_count + 1
       IN agent' =
            IF ~raises
            THEN [agent EXCEPT !.tasks[id].calls = @ + 1,
                               !.completed_tasks = Append(@, id),
                               !.processor = [pc |-> "loop", task |-> 0]]
            ELSE IF rc <= t.max_retries
            THEN [agent EXCEPT !.tasks[id].calls = @ + 1,
                               !.tasks[id].retry_count = rc,
                               !.processor.pc = "backoff"]
            ELSE [agent EXCEPT !.tasks[id].calls = @ + 1,
                               !.tasks[id].retry_count = rc,
                               !.failed_tasks = Append(@, id),
                               !.error_count = @ + 1,
                               !.processor = [pc |-> "loop", task |-> 0]]
    /\ UNCHANGED <<engine, cache_manager, cache_call>>

\* the sleep before a retry is over: self.task_queue.insert(0, task)
Requeue ==
    /\ agent.processor.pc = "backoff"
    /\ agent' = [agent EXCEPT
                    !.task_queue = <<agent.processor.task>> \o @,
                    !.processor = [pc |-> "loop", task |-> 0]]
    /\ UNCHANGED <<engine, cache_manager, cache_call>>

\* ----------------------------------------------------------- inputs
\* max_iterations given to the constructor: a budget of one pass, and a roomy one
IterInputs == {1, MaxIter}
\* identifiers a depends_on may name: 0 is carried by no step
DepIds == {0, 1, 2}
DepInputs == SUBSET DepIds
\* what the plans enumerated may hold in all: dependency identifiers declared,
\* and steps whose action raises at least once
InputBudget == [deps |-> 2, failing |-> 1]
\* (action, max_retries, fails): no action; an action that returns at once; one
\* that raises `fails` times, fails <= max_retries, and then returns; one that
\* always raises
ActionInputs ==
    {<<"none", MaxRetries, 0>>, <<"call", MaxRetries, 0>>}
    \cup {a \in {<<"call", mr, f>> : mr \in 0..MaxRetries, f \in 1..MaxRetries} :
              a[3] <= a[2]}
    \cup {<<"call", mr, Always>> : mr \in 0..MaxRetries}

\* ------------------------------------------------------- specification
Init ==
    /\ max_iterations \in IterInputs
    /\ plans = <<>>
    /\ execution_history = <<>>
    /\ plan_counter = 0
    /\ evaluation_handlers = <<>>
    /\ task = [t \in Tasks |-> IdleFrame]
    /\ cache_manager = CacheManager("lru", 1)
    /\ cache_call = NoCall
    /\ agent = AutonomousAgent

\* The sequential specification: one caller, one plan, no evaluation handler
\* registered.  The caller builds the plan, runs execute_plan to its return,
\* and may add steps and call execute_plan again.
Next ==
    \/ /\ CallerTurn(MainTask)
       /\ DOMAIN plans = {}
       /\ CreatePlan(0)
    \/ /\ CallerTurn(MainTask)
       /\ TotalSteps < MaxSteps
       /\ LET depsLeft == InputBudget.deps - TotalDeps
              failingLeft == InputBudget.failing - TotalFailing
          IN \E p \in DOMAIN plans, a \in ActionInputs, deps \in DepInputs :
                 /\ Cardinality(deps) <= depsLeft
                 /\ a[3] > 0 => failingLeft > 0
                 /\ AddStep(p, 0, a[1], deps, a[2], a[3])
    \/ \E p \in DOMAIN plans : ExecutePlan(MainTask, p)
    \/ LoopTest(MainTask)
    \/ ScanStep(MainTask)
    \/ RunAction(MainTask)
    \/ EvaluatePass(MainTask)
    \/ EndReplanning(MainTask)
    \/ Finish(MainTask)

Spec == Init /\ [][Next]_vars

\* One execute_plan call is one coroutine: once called, the event loop runs it
\* on to its return as long as every awaited action returns.
Running(t) == task[t].pc \in {"loop", "scan", "action", "notify", "final"}
Advance(t) ==
    \/ LoopTest(t) \/ ScanStep(t) \/ RunAction(t)
    \/ EvaluatePass(t) \/ EndReplanning(t) \/ Finish(t)
FairSpec == Spec /\ WF_vars(Advance(MainTask))

\* The registry specification: one caller that creates plans under supplied
\* and synthesized identifiers, adds steps under supplied and synthesized
\* identifiers, and names registered and unregistered plans in add_step and
\* execute_plan; every call runs to its return before the next.
PlanIds == {1, 2}
PlanIdInputs == {0, 1}
StepIdInputs == {0, 1}
RegistryBudget == [plans |-> 2]
RegistryActions == {<<"call", MaxRetries, 0>>, <<"call", MaxRetries, Always>>}
RegistryDeps == {{}, {1}}

RegistryNext ==
    \/ /\ CallerTurn(MainTask)
       /\ plan_counter < RegistryBudget.plans
       /\ \E pid0 \in PlanIdInputs : CreatePlan(pid0)
    \/ /\ CallerTurn(MainTask)
       /\ TotalSteps < MaxSteps
       /\ LET failingLeft == InputBudget.failing - TotalFailing
          IN \E p \in DOMAIN plans, sid0 \in StepIdInputs,
                a \in RegistryActions, deps \in RegistryDeps :
                 /\ a[3] > 0 => failingLeft > 0
                 /\ AddStep(p, sid0, a[1], deps, a[2], a[3])
    \/ \E p \in PlanIds : AddStepNotFound(MainTask, p)
    \/ \E p \in PlanIds : ExecutePlan(MainTask, p)
    \/ LoopTest(MainTask)
    \/ ScanStep(MainTask)
    \/ RunAction(MainTask)
    \/ EvaluatePass(MainTask)
    \/ EndReplanning(MainTask)
    \/ Finish(MainTask)

RegistrySpec == Init /\ [][RegistryNext]_vars

\* The observer specification: one caller, one plan, handlers registered with
\* on_evaluation before and between the execute_plan calls.  A handler either
\* returns or raises; it does not modify the plan.
HandlerInputs == {"returns", "raises"}
ObserverBudget == [handlers |-> 2]
ObserverActions ==
    {<<"call", MaxRetries, 0>>}
    \cup {<<"call", mr, Always>> : mr \in {0, MaxRetries}}
ObserverDeps == {{}, {1}}

ObserverNext ==
    \/ /\ CallerTurn(MainTask)
       /\ DOMAIN plans = {}
       /\ CreatePlan(0)
    \/ /\ CallerTurn(MainTask)
       /\ TotalSteps < MaxSteps
       /\ LET failingLeft == InputBudget.failing - TotalFailing
          IN \E p \in DOMAIN plans, a \in ObserverActions, deps \in ObserverDeps :
                 /\ a[3] > 0 => failingLeft > 0
                 /\ AddStep(p, 0, a[1], deps, a[2], a[3])
    \/ /\ CallerTurn(MainTask)
       /\ Len(evaluation_handlers) < ObserverBudget.handlers
       /\ \E handler \in HandlerInputs : OnEvaluation(handler)
    \/ \E p \in DOMAIN plans : ExecutePlan(MainTask, p)
    \/ LoopTest(MainTask)
    \/ ScanStep(MainTask)
    \/ RunAction(MainTask)
    \/ EvaluatePass(MainTask)
    \/ CallHandler(MainTask)
    \/ EndReplanning(MainTask)
    \/ Finish(MainTask)

ObserverSpec == Init /\ [][ObserverNext]_vars

\* The concurrent specification: two tasks of one event loop call
\* execute_plan once each on a plan built beforehand.  A coroutine runs until
\* it awaits an action that suspends or until it returns: a task takes a step
\* only when no other task is between two suspension points.
Suspended(t) == task[t].pc = "action"
Holding(t) == ~CallerTurn(t) /\ ~Suspended(t)
MayRun(t) == \A u \in Tasks \ {t} : ~Holding(u)
ConcurrentActions ==
    {<<"none", MaxRetries, 0>>, <<"call", MaxRetries, 0>>, <<"call", 0, Always>>,
     <<"call", MaxRetries, 1>>}

ConcurrentNext ==
    \/ /\ \A t \in Tasks : task[t].pc = "idle"
       /\ DOMAIN plans = {}
       /\ CreatePlan(0)
    \/ /\ \A t \in Tasks : task[t].pc = "idle"
       /\ TotalSteps < MaxSteps
       /\ LET depsLeft == InputBudget.deps - TotalDeps
              failingLeft == InputBudget.failing - TotalFailing
          IN \E p \in DOMAIN plans, a \in ConcurrentActions, deps \in DepInputs :
                 /\ Cardinality(deps) <= depsLeft
                 /\ a[3] > 0 => failingLeft > 0
                 /\ AddStep(p, 0, a[1], deps, a[2], a[3])
    \/ \E t \in Tasks :
          /\ MayRun(t)
          /\ task[t].calls = 0
          /\ \E p \in DOMAIN plans : ExecutePlan(t, p)
    \/ \E t \in Tasks : MayRun(t) /\ LoopTest(t)
    \/ \E t \in Tasks : MayRun(t) /\ ScanStep(t)
    \/ \E t \in Tasks : MayRun(t) /\ RunAction(t)
    \/ \E t \in Tasks : MayRun(t) /\ EvaluatePass(t)
    \/ \E t \in Tasks : MayRun(t) /\ EndReplanning(t)
    \/ \E t \in Tasks : MayRun(t) /\ Finish(t)

ConcurrentSpec == Init /\ [][ConcurrentNext]_vars

\* The cache specification: a caller makes get, set, delete and clear calls on
\* a cache manager of either strategy; the engine is left as constructed.
StrategyInputs == {"lru", "lfu"}
SizeInputs == {1, 2}
CacheKeys == {1, 2, 3}
CacheValues == {1, 2}

CacheInit ==
    /\ max_iterations = MaxIter
    /\ plans = <<>>
    /\ execution_history = <<>>
    /\ plan_counter = 0
    /\ evaluation_handlers = <<>>
    /\ task = [t \in Tasks |-> IdleFrame]
    /\ cache_manager \in {CacheManager(strategy, max_size) :
                             strategy \in StrategyInputs, max_size \in SizeInputs}
    /\ cache_call = NoCall
    /\ agent = AutonomousAgent

CacheNext ==
    \/ \E key \in CacheKeys : Get(key)
    \/ \E key \in CacheKeys, value \in CacheValues : Set(key, value)
    \/ \E key \in CacheKeys : Delete(key)
    \/ Clear

CacheSpec == CacheInit /\ [][CacheNext]_vars

\* The parallel specification: two plans are built beforehand, and each of
\* two tasks of one event loop calls execute_plan once, on the plan numbered
\* as the task; the calls interleave at the awaits of the actions.
ParallelBudget == [plans |-> 2]
ParallelActions ==
    {<<"call", MaxRetries, 0>>, <<"call", 0, Always>>, <<"call", MaxRetries, 1>>}

ParallelNext ==
    \/ /\ \A t \in Tasks : task[t].pc = "idle"
       /\ plan_counter < ParallelBudget.plans
       /\ CreatePlan(0)
    \/ /\ \A t \in Tasks : task[t].pc = "idle"
       /\ TotalSteps < MaxSteps
       /\ LET depsLeft == InputBudget.deps - TotalDeps
              failingLeft == InputBudget.failing - TotalFailing
          IN \E p \in DOMAIN plans, a \in ParallelActions, deps \in DepInputs :
                 /\ Cardinality(deps) <= depsLeft
                 /\ a[3] > 0 => failingLeft > 0
                 /\ AddStep(p, 0, a[1], deps, a[2], a[3])
    \/ \E t \in Tasks :
          /\ MayRun(t)
          /\ task[t].calls = 0
          /\ plan_counter = ParallelBudget.plans
          /\ ExecutePlan(t, t)
    \/ \E t \in Tasks : MayRun(t) /\ LoopTest(t)
    \/ \E t \in Tasks : MayRun(t) /\ ScanStep(t)
    \/ \E t \in Tasks : MayRun(t) /\ RunAction(t)
    \/ \E t \in Tasks : MayRun(t) /\ EvaluatePass(t)
    \/ \E t \in Tasks : MayRun(t) /\ EndReplanning(t)
    \/ \E t \in Tasks : MayRun(t) /\ Finish(t)

ParallelSpec == Init /\ [][ParallelNext]_vars

\* The re-execution specification: one caller builds a plan, then calls
\* execute_plan on it time after time and does nothing else to it.
RerunNext ==
    \/ /\ task[MainTask].pc = "idle"
       /\ DOMAIN plans = {}
       /\ CreatePlan(0)
    \/ /\ task[MainTask].pc = "idle"
       /\ TotalSteps < MaxSteps
       /\ LET depsLeft == InputBudget.deps - TotalDeps
              failingLeft == InputBudget.failing - TotalFailing
          IN \E p \in DOMAIN plans, a \in ActionInputs, deps \in DepInputs :
                 /\ Cardinality(deps) <= depsLeft
                 /\ a[3] > 0 => failingLeft > 0
                 /\ AddStep(p, 0, a[1], deps, a[2], a[3])
    \/ \E p \in DOMAIN plans : ExecutePlan(MainTask, p)
    \/ LoopTest(MainTask)
    \/ ScanStep(MainTask)
    \/ RunAction(MainTask)
    \/ EvaluatePass(MainTask)
    \/ EndReplanning(MainTask)
    \/ Finish(MainTask)

RerunSpec == Init /\ [][RerunNext]_vars

\* The agent specification: callers start the agent, add tasks before the
\* start and whenever the processor is suspended, and stop the agent; the
\* engine and the cache are left as constructed.
AgentBudget == [tasks |-> 3]
PriorityInputs == {LOW, HIGH}
TaskInputs ==
    {<<MaxRetries, 0>>, <<MaxRetries, 1>>}
    \cup {<<mr, Always>> : mr \in {0, MaxRetries}}

AgentNext ==
    \/ Start
    \/ Stop
    \/ /\ Len(agent.tasks) < AgentBudget.tasks
       /\ \E priority \in PriorityInputs, a \in TaskInputs :
             AddTask(priority, a[1], a[2])
    \/ ProcessTasks
    \/ ExecuteTask
    \/ Requeue

AgentSpec == Init /\ [][AgentNext]_vars

\* ================================================================ claims
Returned(t) == task[t].pc = "done"
PlanOf(t) == plans[task[t].plan_id]
\* the call ran on a plan that no earlier call had run: every pass the plan
\* has seen is a pass of this call
FirstRun(t) == task[t].result.iterations = task[t].passes
\* the steps of both states of a transition
StepsKept == {x \in StepsOf : x[1] \in DOMAIN plans' /\ x[2] <= Len(plans'[x[1]].steps)}
StepAt(x) == plans[x[1]].steps[x[2]]

\* ---------------------------------------------------------------- C1
\* C1: a step goes from PENDING to IN_PROGRESS only in a transition from a
\* state in which every identifier of its depends_on is carried by a step of
\* the same plan that is COMPLETED; an identifier no step carries blocks it.
C1_StartsOnlyWithDependenciesCompleted ==
    [][\A x \in StepsKept :
          (StepAt(x).status = PENDING /\ StepAt(x)'.status = IN_PROGRESS)
          => \A d \in StepAt(x).depends_on :
                \E j \in DOMAIN plans[x[1]].steps :
                    /\ plans[x[1]].steps[j].step_id = d
                    /\ plans[x[1]].steps[j].status = COMPLETED]_vars

\* a step with a dependency is being executed
C1_Witness ==
    \E x \in StepsOf : StepAt(x).status = IN_PROGRESS /\ StepAt(x).depends_on # {}

C3_RetryCountWithinMaxRetries ==
    [][/\ \A x \in StepsOf' : StepAt(x)'.retry_count <= StepAt(x)'.max_retries
       /\ \A x \in StepsKept :
             StepAt(x).status = FAILED => StepAt(x)'.status = FAILED]_vars

\* C3 amended: retry_count never exceeds max_retries + 1, and a FAILED step
\* keeps that status.
C3_RetryCountWithinMaxRetriesPlusOne ==
    [][/\ \A x \in StepsOf' : StepAt(x)'.retry_count <= StepAt(x)'.max_retries + 1
       /\ \A x \in StepsKept :
             StepAt(x).status = FAILED => StepAt(x)'.status = FAILED]_vars

\* a step has exhausted its retries and a second call has gone over it
C3_Witness ==
    \E x \in StepsOf :
        /\ StepAt(x).status = FAILED
        /\ StepAt(x).retry_count = StepAt(x).max_retries + 1
        /\ task[MainTask].calls = 2
        /\ task[MainTask].passes >= 1

\* ---------------------------------------------------------------- C4
\* C4: the iteration counter of a plan never exceeds its max_iterations.
C4_IterationWithinBudget ==
    \A p \in DOMAIN plans : plans[p].iteration <= plans[p].max_iterations

\* a second call returns for a plan that has used its whole budget
C4_Witness ==
    \E t \in Tasks :
        /\ Returned(t)
        /\ task[t].calls = 2
        /\ Len(PlanOf(t).steps) >= 1
        /\ PlanOf(t).iteration = PlanOf(t).max_iterations

C6_Scenario(t) ==
    /\ Returned(t)
    /\ FirstRun(t)
    /\ task[t].result.evaluation.total_steps = 1
    /\ PlanOf(t).max_iterations >= 2
    /\ PlanOf(t).steps[1].action = "call"
    /\ PlanOf(t).steps[1].fails = Always
    /\ PlanOf(t).steps[1].max_retries = 1
    /\ PlanOf(t).steps[1].depends_on = {}

\* the pass of task t ends in this transition
EndsPass(t) == task[t].pc = "scan" /\ task[t].pc' \notin {"scan", "action"}

\* C6: when a pass ends with a FAILED step and no PENDING step, the plan is
\* set to FAILED in that pass and the call returns without another pass; the
\* plan of C6_Scenario is FAILED after exactly 2 invocations and 2 iterations.
C6_UnrecoverableFailureEndsTheLoop ==
    /\ [][\A t \in Tasks :
            /\ (/\ EndsPass(t)
                /\ Count(PlanOf(t).steps, LAMBDA s : s.status = FAILED) > 0
                /\ Count(PlanOf(t).steps, LAMBDA s : s.status = PENDING) = 0)
               => /\ PlanOf(t)'.status = FAILED
                  /\ task[t].pc' = "final"
            /\ task[t].pc = "final"
               => /\ task[t].pc' = "done"
                  /\ PlanOf(t)'.iteration = PlanOf(t).iteration
                  /\ PlanOf(t).status = FAILED => task[t].result'.status = FAILED]_vars
    /\ [](\A t \in Tasks : C6_Scenario(t) =>
            /\ task[t].result.status = FAILED
            /\ PlanOf(t).steps[1].status = FAILED
            /\ PlanOf(t).steps[1].calls = 2
            /\ task[t].result.iterations = 2)

\* the scenario, returned with iterations left
C6_Witness ==
    \E t \in Tasks :
        /\ C6_Scenario(t)
        /\ task[t].unrecoverable
        /\ task[t].result.iterations < PlanOf(t).max_iterations

\* ---------------------------------------------------------------- C7
\* C7 as stated: a call that ends by budget exhaustion returns with iteration
\* = max_iterations, has_failures false and pending > 0.
C7_ExhaustionHasNoFailures ==
    \A t \in Tasks : (Returned(t) /\ task[t].exhausted) =>
        /\ task[t].result.iterations = PlanOf(t).max_iterations
        /\ ~task[t].result.evaluation.has_failures
        /\ task[t].result.evaluation.pending > 0

\* C7 amended: a call that ends by budget exhaustion returns with iteration
\* = max_iterations; when it ran a pass and the plan has a step, pending > 0
\* (has_failures may be true or false).
C7_ExhaustionLeavesPending ==
    \A t \in Tasks : (Returned(t) /\ task[t].exhausted) =>
        /\ task[t].result.iterations = PlanOf(t).max_iterations
        /\ (task[t].passes >= 1 /\ task[t].result.evaluation.total_steps >= 1)
           => task[t].result.evaluation.pending > 0

\* budget exhaustion with a FAILED step and a PENDING step
C7_Witness ==
    \E t \in Tasks :
        /\ Returned(t)
        /\ task[t].exhausted
        /\ task[t].result.evaluation.has_failures
        /\ task[t].result.evaluation.pending > 0

\* ---------------------------------------------------------------- C8
\* the premise of C8, for the steps the call returned with: each dependency
\* is a step declared earlier, each action returns at its first invocation
C8_InOrder(t) ==
    /\ Returned(t)
    /\ FirstRun(t)
    /\ task[t].result.evaluation.total_steps >= 1
    /\ \A i \in 1..task[t].result.evaluation.total_steps :
          /\ PlanOf(t).steps[i].fails = 0
          /\ \A d \in PlanOf(t).steps[i].depends_on :
                \E j \in 1..(i - 1) : PlanOf(t).steps[j].step_id = d

\* C8: a plan (of at least one step) whose dependencies are all declared
\* earlier and whose actions all return at once is COMPLETED by its first
\* call in exactly 1 iteration, each action invoked once, in insertion order.
C8_InOrderPlanCompletesInOnePass ==
    \A t \in Tasks : C8_InOrder(t) =>
        LET plan == PlanOf(t)
            n == task[t].result.evaluation.total_steps
        IN /\ task[t].result.status = COMPLETED
           /\ task[t].result.iterations = 1
           /\ {plan.log[k].step : k \in DOMAIN plan.log}
                  = {i \in 1..n : plan.steps[i].action # "none"}
           /\ \A k, m \in DOMAIN plan.log :
                  k < m => plan.log[k].step < plan.log[m].step

\* step 2 depends on step 1, both have an action, both are invoked
C8_Witness ==
    \E t \in Tasks :
        /\ C8_InOrder(t)
        /\ task[t].result.evaluation.total_steps = 2
        /\ PlanOf(t).steps[2].depends_on = {1}
        /\ Len(PlanOf(t).log) = 2

\* ---------------------------------------------------------------- C9
\* the premise of C9: a plan of one step without dependencies whose action
\* raises k times and then returns, k <= max_retries, k + 1 <= max_iterations
C9_Flaky(t, k) ==
    /\ Returned(t)
    /\ FirstRun(t)
    /\ task[t].result.evaluation.total_steps = 1
    /\ PlanOf(t).steps[1].action = "call"
    /\ PlanOf(t).steps[1].fails = k
    /\ PlanOf(t).steps[1].depends_on = {}
    /\ k <= PlanOf(t).steps[1].max_retries
    /\ k + 1 <= PlanOf(t).max_iterations

\* C9: such a step ends COMPLETED with retry_count = k after exactly k + 1
\* invocations, one in each of the iterations 1..k+1, and the plan ends
\* COMPLETED at iteration k + 1.
C9_FlakyStepCompletesAfterKRetries ==
    \A t \in Tasks : \A k \in 0..(MaxRetries + 1) : C9_Flaky(t, k) =>
        /\ PlanOf(t).steps[1].status = COMPLETED
        /\ PlanOf(t).steps[1].retry_count = k
        /\ PlanOf(t).steps[1].calls = k + 1
        /\ PlanOf(t).log = [j \in 1..(k + 1) |->
                               [step |-> 1, iteration |-> j, ok |-> (j = k + 1)]]
        /\ task[t].result.status = COMPLETED
        /\ task[t].result.iterations = k + 1

\* the action raised max_retries times, max_retries >= 1, before it returned
C9_Witness ==
    \E t \in Tasks : \E k \in 1..MaxRetries :
        /\ C9_Flaky(t, k)
        /\ k = PlanOf(t).steps[1].max_retries

\* --------------------------------------------------------------- C10
\* C10: the action of a step is invoked at most max_retries + 1 times over
\* the life of the plan, and never once the step is COMPLETED or FAILED.
C10_AtMostMaxRetriesPlusOneInvocations ==
    [][/\ \A x \in StepsOf' : StepAt(x)'.calls <= StepAt(x)'.max_retries + 1
       /\ \A x \in StepsKept :
             StepAt(x).status \in {COMPLETED, FAILED}
             => StepAt(x)'.calls = StepAt(x).calls]_vars

\* a second call has run a pass over a step that used up all its invocations
C10_Witness ==
    \E x \in StepsOf :
        /\ StepAt(x).calls = StepAt(x).max_retries + 1
        /\ StepAt(x).status = COMPLETED
        /\ task[MainTask].calls = 2
        /\ task[MainTask].passes >= 1
        /\ Returned(MainTask)

GetExecutionHistory(plan_id) ==
    SelectSeq(execution_history, LAMBDA h : h.plan_id = plan_id)

\* a pass of the plan has begun and has not yet appended its entry
InPass(plan_id) ==
    \E t \in Tasks : task[t].plan_id = plan_id /\ task[t].pc \in {"scan", "action"}

\* C12: for every plan id the history filtered by that id holds one entry per
\* pass run, with the iteration numbers 1, 2, ..., n in append order, n the
\* iteration counter of the plan (less the pass still under way) and n <=
\* max_iterations; the history only grows at its end; the iterations field
\* of a returned summary is n.
C12_HistoryHoldsOneEntryPerPass ==
    /\ [](\A p \in DOMAIN plans :
            LET h == GetExecutionHistory(p)
                n == plans[p].iteration
            IN /\ n <= plans[p].max_iterations
               /\ Len(h) = IF InPass(p) THEN n - 1 ELSE n
               /\ \A k \in DOMAIN h : h[k].iteration = k)
    /\ [](\A t \in Tasks : Returned(t) =>
            task[t].result.iterations = PlanOf(t).iteration)
    /\ [][/\ Len(execution_history') >= Len(execution_history)
          /\ SubSeq(execution_history', 1, Len(execution_history))
                 = execution_history]_vars

\* --------------------------------------------------------------- C13
\* the handlers called by task t in the pass numbered n, in call order
NotifiedIn(t, n) ==
    LET calls == SelectSeq(task[t].notified, LAMBDA e : e.iteration = n)
    IN [k \in DOMAIN calls |-> calls[k].handler]

\* C13: a pass goes on to notify the handlers exactly when its evaluation
\* counts a FAILED and a PENDING step (so never when it ends the plan
\* COMPLETED or FAILED, nor without a FAILED step); handlers are called in
\* that window only, with the plan REPLANNING; when the window closes each
\* registered handler has been called once, in registration order, and the
\* plan is ACTIVE again; REPLANNING is held in that window only.
C13_HandlersCalledOnReplanningOnly ==
    /\ [][\A t \in Tasks :
            /\ EndsPass(t)
               => (task[t].pc' = "notify"
                   <=> (task[t].evaluation'.failed > 0
                        /\ task[t].evaluation'.pending > 0))
            /\ (task[t].notified' # task[t].notified /\ task[t].notified' # <<>>)
               => /\ task[t].pc = "notify"
                  /\ PlanOf(t).status = REPLANNING
                  /\ Len(task[t].notified') = Len(task[t].notified) + 1
            /\ (task[t].pc = "notify" /\ task[t].pc' # "notify")
               => /\ NotifiedIn(t, PlanOf(t).iteration)
                        = [k \in 1..Len(evaluation_handlers) |-> k]
                  /\ PlanOf(t).status = REPLANNING
                  /\ PlanOf(t)'.status = ACTIVE]_vars
    /\ [](\A t \in Tasks : task[t].pc = "notify" =>
            /\ task[t].evaluation.failed > 0
            /\ task[t].evaluation.pending > 0
            /\ ~task[t].evaluation.all_completed
            /\ PlanOf(t).status = REPLANNING)
    /\ [](\A p \in DOMAIN plans : plans[p].status = REPLANNING =>
            \E t \in Tasks : task[t].plan_id = p /\ task[t].pc = "notify")

\* a call has returned after a first pass without notification and a second
\* pass in which two handlers were called
C13_Witness ==
    \E t \in Tasks :
        /\ Returned(t)
        /\ Len(evaluation_handlers) = 2
        /\ NotifiedIn(t, 1) = <<>>
        /\ NotifiedIn(t, 2) = <<1, 2>>

\* --------------------------------------------------------------- C14
\* C14: the call of a handler that raises changes the state as the call of a
\* handler that returns does (next handler, plan and history untouched), so
\* the call goes on to the same result; execute_plan does not raise; the
\* handlers registered after a handler that raised are called in the same
\* pass, and the plan is ACTIVE again when the window closes.
C14_HandlerErrorIsDropped ==
    /\ [][\A t \in Tasks :
            /\ (task[t].pc = "notify" /\ task[t].hidx' # task[t].hidx)
               => /\ task[t]' = [task[t] EXCEPT
                                    !.hidx = @ + 1,
                                    !.notified = Append(@, Notification(t))]
                  /\ UNCHANGED <<plans, execution_history, plan_counter,
                                 evaluation_handlers>>
            /\ (task[t].pc = "notify" /\ task[t].pc' # "notify")
               => /\ task[t].pc' = "loop"
                  /\ NotifiedIn(t, PlanOf(t).iteration)
                        = [k \in 1..Len(evaluation_handlers) |-> k]
                  /\ PlanOf(t)'.status = ACTIVE]_vars
    /\ [](\A t \in Tasks : task[t].pc # "raised")

\* a call has returned after a pass in which the first handler raised and the
\* second handler was called after it
C14_Witness ==
    \E t \in Tasks :
        /\ Returned(t)
        /\ Len(task[t].notified) >= 2
        /\ task[t].notified[1].raised
        /\ task[t].notified[1].handler = 1
        /\ task[t].notified[2].handler = 2
        /\ task[t].notified[2].iteration = task[t].notified[1].iteration
        /\ task[t].result.status = FAILED

\* --------------------------------------------------------------- C15
\* the action awaited by task t raises in this transition
ActionRaises(t) ==
    /\ task[t].pc = "action"
    /\ task[t].pc' # "action"
    /\ LET step == PlanOf(t).steps[task[t].idx]
       IN step.action # "none" /\ step.calls + 1 <= step.fails

\* C15: when the action of a step raises, the step records the error and
\* becomes PENDING or FAILED, the scan goes on with the next step, and every
\* step of the plan is gone over before the pass ends; execute_plan ends in
\* no exception, and the summary it returns shows the step in that state.
C15_ActionFailureIsNotPropagated ==
    /\ [][\A t \in Tasks :
            /\ ActionRaises(t)
               => LET i == task[t].idx
                  IN /\ PlanOf(t)'.steps[i].error
                     /\ PlanOf(t)'.steps[i].status \in {PENDING, FAILED}
                     /\ PlanOf(t)'.steps[i].retry_count
                            = PlanOf(t).steps[i].retry_count + 1
                     /\ task[t].pc' = "scan"
                     /\ task[t].idx' = i + 1
            /\ (task[t].pc = "scan" /\ task[t].pc' = "scan")
               => task[t].idx' = task[t].idx + 1
            /\ EndsPass(t) => task[t].idx > Len(PlanOf(t).steps)]_vars
    /\ [](\A t \in Tasks :
            /\ task[t].pc # "raised"
            /\ Returned(t) =>
                  /\ task[t].result.status \in {COMPLETED, FAILED}
                  /\ \A k \in DOMAIN PlanOf(t).log :
                        ~PlanOf(t).log[k].ok
                        => PlanOf(t).steps[PlanOf(t).log[k].step].error)

\* a call has returned after a pass in which the action of the first step
\* raised and the second step was executed after it
C15_Witness ==
    \E t \in Tasks :
        /\ Returned(t)
        /\ Len(PlanOf(t).log) >= 2
        /\ PlanOf(t).log[1] = [step |-> 1, iteration |-> 1, ok |-> FALSE]
        /\ PlanOf(t).log[2] = [step |-> 2, iteration |-> 1, ok |-> TRUE]

\* --------------------------------------------------------------- C16
\* C16: an execute_plan call that names an unregistered plan raises, as does
\* add_step (a plan is registered by create_plan only, and a step is added to
\* registered plans only), and a call that raises leaves plans, steps,
\* statuses, iteration counters, history and identifier counter as they were.
C16_PlanNotFoundChangesNothing ==
    [][\A t \in Tasks :
          /\ (task[t].calls' = task[t].calls + 1
               /\ task[t].plan_id' \notin DOMAIN plans)
             => task[t].pc' = "raised"
          /\ (task[t].pc' = "raised" /\ task[t]' # task[t])
             => /\ task[t].plan_id' \notin DOMAIN plans
                /\ UNCHANGED <<plans, execution_history, plan_counter,
                               evaluation_handlers, max_iterations>>
          /\ DOMAIN plans' # DOMAIN plans => plan_counter' = plan_counter + 1]_vars

\* add_step has raised for an unregistered plan after another plan was run
C16_Witness ==
    /\ task[MainTask].pc = "raised"
    /\ task[MainTask].calls = 1
    /\ execution_history # <<>>
    /\ task[MainTask].plan_id \notin DOMAIN plans

\* --------------------------------------------------------------- C17
\* get_plan: the plan registered under the identifier, if any
GetPlan(plan_id) == {plans[p] : p \in DOMAIN plans \cap {plan_id}}

\* get_summary
GetSummary ==
    [total_plans |-> Cardinality(DOMAIN plans),
     completed_plans |-> Cardinality({p \in DOMAIN plans : plans[p].status = COMPLETED}),
     failed_plans |-> Cardinality({p \in DOMAIN plans : plans[p].status = FAILED}),
     active_plans |-> Cardinality({p \in DOMAIN plans : plans[p].status = ACTIVE}),
     total_history_entries |-> Len(execution_history)]

\* C17: the plan made by each create_plan call so far (plan_counter counts
\* the calls) is the plan get_plan returns for some identifier, and
\* total_plans is the number of create_plan calls.
C17_EveryCreatedPlanStaysRegistered ==
    /\ \A k \in 1..plan_counter :
          \E p \in DOMAIN plans : \E plan \in GetPlan(p) : plan.created_at = k
    /\ GetSummary.total_plans = plan_counter

\* --------------------------------------------------------------- C18
\* C18: no two steps of a plan carry the same step identifier.
C18_StepIdentifiersAreUnique ==
    \A p \in DOMAIN plans : \A i, j \in DOMAIN plans[p].steps :
        i # j => plans[p].steps[i].step_id # plans[p].steps[j].step_id

\* --------------------------------------------------------------- C19
\* both tasks have called execute_plan on plan p and returned, every action of
\* the plan returns at its first invocation, task b was told FAILED and the
\* plan is COMPLETED in the end
C19_Outcome(p, b) ==
    /\ \A t \in Tasks : Returned(t) /\ task[t].plan_id = p
    /\ \A i \in DOMAIN plans[p].steps : plans[p].steps[i].fails = 0
    /\ task[b].result.status = FAILED
    /\ plans[p].status = COMPLETED

\* C19: two calls on the same plan, every action succeeding, end with one
\* call told FAILED and the plan COMPLETED only when the calls overlapped (no
\* serialized execution ends so); the call told FAILED then used up the
\* iteration budget while a step was IN_PROGRESS in the other call, saw no
\* FAILED step, and the other call returned COMPLETED.
C19_FailedThenCompletedOnlyWhenOverlapped ==
    \A p \in DOMAIN plans : \A b \in Tasks : C19_Outcome(p, b) =>
        LET e == task[b].result.evaluation
        IN /\ \E t \in Tasks : task[t].overlapped
           /\ task[b].exhausted
           /\ task[b].result.iterations = plans[p].max_iterations
           /\ e.completed + e.failed + e.pending < e.total_steps
           /\ e.failed = 0
           /\ \A a \in Tasks \ {b} : task[a].result.status = COMPLETED

\* the interleaving of C19: a plan of one step; the second call began while
\* the first awaited the action, ran passes that executed nothing until the
\* budget was used up and returned FAILED; the first call then completed the
\* step and returned COMPLETED
C19_Witness ==
    \E p \in DOMAIN plans : \E b \in Tasks :
        /\ C19_Outcome(p, b)
        /\ Len(plans[p].steps) = 1
        /\ plans[p].steps[1].action = "call"
        /\ plans[p].steps[1].calls = 1
        /\ task[b].overlapped
        /\ task[b].passes >= 1
        /\ task[b].result.evaluation.completed = 0
        /\ \A k \in DOMAIN execution_history :
              k < Len(execution_history) => execution_history[k].steps_executed = 0

\* --------------------------------------------------------------- C20
\* C20: a get(k) that comes right after a set(k, v) returns v, for both
\* strategies and whatever calls came before.
C20_GetAfterSetReturnsTheValue ==
    [][(/\ cache_call.op = "set"
        /\ cache_call'.op = "get"
        /\ cache_call'.n = cache_call.n + 1
        /\ cache_call'.key = cache_call.key)
       => cache_call'.result = cache_call.value]_vars

\* --------------------------------------------------------------- C21
\* the key of the entry of least last_accessed: the key least recently
\* written by set or read by a get that hit
LeastRecentlyUsed(c) ==
    {c.cache[i].key : i \in {i \in DOMAIN c.cache :
        \A j \in DOMAIN c.cache : c.cache[i].last_accessed <= c.cache[j].last_accessed}}

\* C21: an LRU cache never holds more than max_size entries (nor two entries
\* of one key); a set of a key not held, made on a full cache, evicts exactly
\* one key, the one least recently written by set or read by a get that hit,
\* and keeps the key set; any other set evicts nothing.
C21_LRUEvictsLeastRecentlyUsed ==
    /\ [](cache_manager.strategy = "lru" =>
            /\ Len(cache_manager.cache.cache) <= cache_manager.cache.max_size
            /\ Cardinality(KeysOf(cache_manager.cache)) = Len(cache_manager.cache.cache))
    /\ [][(cache_manager.strategy = "lru" /\ cache_call'.n = cache_call.n + 1
             /\ cache_call'.op = "set")
          => LET c == cache_manager.cache
                 overflow == /\ cache_call'.key \notin KeysOf(c)
                             /\ Len(c.cache) = c.max_size
             IN /\ cache_call'.key \in KeysOf(cache_manager'.cache)
                /\ overflow => /\ Cardinality(cache_call'.evicted) = 1
                                /\ cache_call'.evicted = LeastRecentlyUsed(c)
                /\ ~overflow => cache_call'.evicted = {}]_vars

\* two keys were written, one of them was read, and a set of a third key has
\* evicted the other one
C21_Witness ==
    /\ cache_manager.strategy = "lru"
    /\ cache_call.op = "set"
    /\ cache_call.n = 4
    /\ cache_call.evicted # {}
    /\ Len(cache_manager.cache.cache) = 2
    /\ cache_manager.cache.cache[1].access_count = 1
    /\ cache_manager.cache.cache[1].last_accessed = 3
    /\ cache_manager.cache.cache[2].key = cache_call.key

\* --------------------------------------------------------------- C22
\* the queue holds its tasks by priority, highest first
SortedByPriority(queue) ==
    \A i, j \in DOMAIN queue :
        i < j => agent.tasks[queue[i]].priority >= agent.tasks[queue[j]].priority

\* the processor takes a task from the queue in this transition
TakesTask == agent.processor.pc # "action" /\ agent'.processor.pc = "action"

\* C22: add_task leaves task_queue sorted by priority, highest first, and the
\* task the processor takes has a priority that is maximal among the tasks
\* queued at that moment, retries and concurrent add_task calls included.
C22_ProcessorTakesHighestPriority ==
    [][/\ Len(agent'.tasks) > Len(agent.tasks)
          => SortedByPriority(agent.task_queue)'
       /\ TakesTask
          => \A i \in DOMAIN agent.task_queue :
                agent.tasks[agent'.processor.task].priority
                    >= agent.tasks[agent.task_queue[i]].priority]_vars

\* --------------------------------------------------------------- C23
\* the premise of C23: the first call on a plan of n steps has returned, each
\* step but the last depends on the step declared right after it, the last
\* step depends on nothing, and every action returns at its first invocation
C23_ReverseChain(t, n) ==
    /\ Returned(t)
    /\ FirstRun(t)
    /\ n >= 1
    /\ task[t].result.evaluation.total_steps = n
    /\ Len(PlanOf(t).steps) = n
    /\ \A i \in 1..n :
          /\ PlanOf(t).steps[i].fails = 0
          /\ PlanOf(t).steps[i].depends_on
                 = IF i < n THEN {PlanOf(t).steps[i + 1].step_id} ELSE {}

\* C23: such a chain is worked off from its end, one step per pass: pass k
\* executes exactly one step, the step n + 1 - k.  With n <= max_iterations
\* the call returns COMPLETED at iteration n; with n > max_iterations it runs
\* max_iterations passes and the plan is forced to FAILED by budget
\* exhaustion, with no FAILED step and n - max_iterations steps PENDING.
C23_ReverseChainTakesOnePassPerStep ==
    \A t \in Tasks : \A n \in 1..(MaxSteps + 1) : C23_ReverseChain(t, n) =>
        LET plan == PlanOf(t)
            m == plan.max_iterations
            passes == IF n <= m THEN n ELSE m
        IN /\ task[t].result.iterations = passes
           /\ task[t].passes = passes
           /\ Len(execution_history) = passes
           /\ \A k \in 1..passes :
                 /\ execution_history[k].steps_executed = 1
                 /\ execution_history[k].evaluation.completed = k
           /\ \A i \in 1..n :
                 IF n + 1 - i <= passes
                 THEN /\ plan.steps[i].status = COMPLETED
                      /\ plan.steps[i].completed_at = n + 1 - i
                 ELSE plan.steps[i].status = PENDING
           /\ n <= m => /\ task[t].result.status = COMPLETED
                        /\ ~task[t].exhausted
           /\ n > m => /\ task[t].result.status = FAILED
                       /\ task[t].exhausted
                       /\ ~task[t].unrecoverable
                       /\ ~task[t].result.evaluation.has_failures
                       /\ task[t].result.evaluation.pending = n - m

\* a chain of two steps has been cut short by a budget of one pass
C23_Witness ==
    \E t \in Tasks :
        /\ C23_ReverseChain(t, 2)
        /\ PlanOf(t).max_iterations = 1
        /\ PlanOf(t).steps[2].status = COMPLETED
        /\ PlanOf(t).steps[1].status = PENDING
        /\ task[t].result.status = FAILED

\* --------------------------------------------------------------- C24
\* the steps of a plan that are IN_PROGRESS
InProgress(plan) == {i \in DOMAIN plan.steps : plan.steps[i].status = IN_PROGRESS}

\* the counts of an evaluation add up to the number of steps
AddsUp(e) == e.completed + e.failed + e.pending = e.total_steps

\* C24: with one execute_plan call under way at a time, a step is IN_PROGRESS
\* exactly while the call awaits its action, so at most one step at any
\* moment; the scan stands still while the action is awaited and moves to the
\* next step when it resolves; no step is IN_PROGRESS when a pass is
\* evaluated, and completed + failed + pending = total_steps in every
\* evaluation (history entries, returned summaries).
C24_OneStepInProgressAtATime ==
    /\ [](\A p \in DOMAIN plans :
            /\ Cardinality(InProgress(plans[p])) <= 1
            /\ InProgress(plans[p])
                  = {task[t].idx : t \in {t \in Tasks : /\ task[t].pc = "action"
                                                        /\ task[t].plan_id = p}})
    /\ [](/\ \A k \in DOMAIN execution_history :
                AddsUp(execution_history[k].evaluation)
          /\ \A t \in Tasks : Returned(t) => AddsUp(task[t].result.evaluation))
    /\ [][\A t \in Tasks :
            /\ task[t].pc = "action"
               => /\ task[t].pc' = "scan"
                  /\ task[t].idx' = task[t].idx + 1
                  /\ InProgress(PlanOf(t)') = {}
            /\ task[t].pc' = "action" => task[t].idx' = task[t].idx
            /\ EndsPass(t) => InProgress(PlanOf(t)) = {}]_vars

\* a pass has executed two steps one after the other and its evaluation
\* counts one of them completed and the other pending again
C24_Witness ==
    /\ Returned(MainTask)
    /\ execution_history # <<>>
    /\ execution_history[1].steps_executed = 2
    /\ execution_history[1].evaluation.completed = 1
    /\ execution_history[1].evaluation.pending = 1
    /\ execution_history[1].evaluation.total_steps = 2

\* --------------------------------------------------------------- C25
\* the invocations of the action of step i of a plan, as logged
AttemptsOf(plan, i) == {k \in DOMAIN plan.log : plan.log[k].step = i}

\* C25: no step is invoked twice in one pass.  A step whose action always
\* raises is FAILED only once it has been invoked in max_retries + 1 passes,
\* the last of which stamped it.  When max_iterations <= max_retries such a
\* step is PENDING at every return of execute_plan, the plan is FAILED by
\* budget exhaustion, never by the unrecoverable-failure branch, and the
\* returned evaluation counts the step as pending and, no other action of
\* the plan raising, has has_failures false.
C25_AlwaysFailingStepNeedsMaxRetriesPlusOnePasses ==
    /\ \A p \in DOMAIN plans :
          \A k, m \in DOMAIN plans[p].log :
              (k # m /\ plans[p].log[k].step = plans[p].log[m].step)
              => plans[p].log[k].iteration # plans[p].log[m].iteration
    /\ \A x \in StepsOf :
          LET plan == plans[x[1]]
              step == StepAt(x)
          IN (step.action # "none" /\ step.fails = Always) =>
                /\ step.status = FAILED
                   => /\ Cardinality(AttemptsOf(plan, x[2])) = step.max_retries + 1
                      /\ step.retry_count = step.max_retries + 1
                      /\ plan.iteration >= step.max_retries + 1
                      /\ \E k \in AttemptsOf(plan, x[2]) :
                            plan.log[k].iteration = step.completed_at
                /\ plan.max_iterations <= step.max_retries
                   => /\ step.status # FAILED
                      /\ \A t \in Tasks :
                            (/\ Returned(t)
                             /\ task[t].plan_id = x[1]
                             /\ x[2] <= task[t].result.evaluation.total_steps)
                            => /\ step.status = PENDING
                               /\ task[t].result.status = FAILED
                               /\ task[t].exhausted
                               /\ ~task[t].unrecoverable
                               /\ task[t].result.evaluation.pending >= 1
                               /\ (\A j \in DOMAIN plan.steps :
                                      j # x[2] => plan.steps[j].fails = 0)
                                  => ~task[t].result.evaluation.has_failures

\* a budget of one pass has been used up on a step of max_retries 1 whose
\* action always raises: invoked once, PENDING, plan FAILED without a FAILED step
C25_Witness ==
    \E t \in Tasks :
        /\ Returned(t)
        /\ PlanOf(t).max_iterations = 1
        /\ Len(PlanOf(t).steps) >= 1
        /\ PlanOf(t).steps[1].fails = Always
        /\ PlanOf(t).steps[1].max_retries = 1
        /\ PlanOf(t).steps[1].status = PENDING
        /\ PlanOf(t).steps[1].retry_count = 1
        /\ task[t].result.status = FAILED
        /\ ~task[t].result.evaluation.has_failures

\* --------------------------------------------------------------- C26
\* task t is in a call that found its plan COMPLETED or FAILED
Reexecution(t) ==
    /\ ~CallerTurn(t)
    /\ task[t].began \in {COMPLETED, FAILED}

\* C26: an execute_plan call on a plan that an earlier call left COMPLETED or
\* FAILED, the plan untouched since, returns that status and leaves the plan
\* in it, invokes no action and changes no step, whatever the iteration
\* counter of the plan.
C26_ReexecutionKeepsTheOutcome ==
    [][\A t \in Tasks : Reexecution(t) =>
          /\ PlanOf(t)'.steps = PlanOf(t).steps
          /\ PlanOf(t)'.log = PlanOf(t).log
          /\ Returned(t)' => /\ task[t].result'.status = task[t].began
                             /\ PlanOf(t)'.status = task[t].began]_vars

\* --------------------------------------------------------------- C27
\* the steps that can still become COMPLETED, whatever their actions do: the
\* least set holding the COMPLETED steps and the steps not FAILED each of
\* whose dependencies resolves to a step of the set
RECURSIVE Completable(_, _)
Completable(plan, R) ==
    LET N == {i \in DOMAIN plan.steps :
                \/ plan.steps[i].status = COMPLETED
                \/ /\ plan.steps[i].status \in {PENDING, IN_PROGRESS}
                   /\ \A d \in plan.steps[i].depends_on :
                         StepMap(plan, d) # 0 /\ StepMap(plan, d) \in R}
    IN IF N = R THEN R ELSE Completable(plan, N)

\* the PENDING steps that depend, directly or through other steps, on a
\* FAILED step, on themselves or a cycle, or on an identifier no step carries
Blocked(plan) ==
    {i \in DOMAIN plan.steps :
        plan.steps[i].status = PENDING /\ i \notin Completable(plan, {})}

\* C27: while an execute_plan call is under way a blocked step stays blocked
\* and PENDING and its action is not invoked; a call on a plan with a blocked
\* step returns FAILED through budget exhaustion, its iteration counter at
\* max_iterations (the first call after max_iterations passes), never through
\* the unrecoverable-failure branch and never COMPLETED.
C27_BlockedStepIsNeverExecuted ==
    /\ [][\A t \in Tasks : ~CallerTurn(t) =>
            \A i \in Blocked(PlanOf(t)) :
                /\ PlanOf(t)'.steps[i] = PlanOf(t).steps[i]
                /\ i \in Blocked(PlanOf(t)')]_vars
    /\ [](\A t \in Tasks :
            (/\ Returned(t)
             /\ \E i \in Blocked(PlanOf(t)) : i <= task[t].result.evaluation.total_steps)
            => /\ task[t].result.status = FAILED
               /\ task[t].exhausted
               /\ ~task[t].unrecoverable
               /\ task[t].result.iterations = PlanOf(t).max_iterations
               /\ FirstRun(t) => task[t].passes = PlanOf(t).max_iterations
               /\ task[t].result.evaluation.pending >= 1)

\* a first call has run MaxIter passes on a plan whose first step FAILED and
\* whose second step, which depends on it, was never invoked
C27_Witness ==
    \E t \in Tasks :
        /\ Returned(t)
        /\ FirstRun(t)
        /\ task[t].passes = MaxIter
        /\ Len(PlanOf(t).steps) = 2
        /\ PlanOf(t).steps[1].status = FAILED
        /\ PlanOf(t).steps[2].depends_on = {1}
        /\ PlanOf(t).steps[2].action = "call"
        /\ PlanOf(t).steps[2].calls = 0
        /\ Blocked(PlanOf(t)) = {2}

\* --------------------------------------------------------------- C28
\* the plan as it was built: its steps as add_step made them
Fresh(plan) ==
    [plan EXCEPT
        !.status = DRAFT, !.iteration = 0, !.completed_at = FALSE, !.log = <<>>,
        !.steps = [i \in DOMAIN plan.steps |->
                      [plan.steps[i] EXCEPT
                          !.status = PENDING, !.retry_count = 0, !.error = FALSE,
                          !.completed_at = 0, !.calls = 0]]]

\* _execute_ready_steps from step i on, run without interruption
RECURSIVE ScanAlone(_, _, _)
ScanAlone(plan, i, executed) ==
    IF i > Len(plan.steps) THEN [plan |-> plan, executed |-> executed]
    ELSE IF Ready(plan, plan.steps[i])
    THEN ScanAlone(ExecuteStep(plan, i), i + 1, executed + 1)
    ELSE ScanAlone(plan, i + 1, executed)

\* the loop of execute_plan, run without interruption and without handlers
RECURSIVE LoopAlone(_, _)
LoopAlone(plan, history) ==
    IF plan.iteration >= plan.max_iterations
    THEN [plan |-> plan, history |-> history]
    ELSE LET scan == ScanAlone([plan EXCEPT !.iteration = @ + 1], 1, 0)
             evaluation == EvaluatePlan(scan.plan)
             outcome == PassOutcome(evaluation)
             entry == [plan_id |-> plan.plan_id, iteration |-> scan.plan.iteration,
                       steps_executed |-> scan.executed, evaluation |-> evaluation]
         IN IF outcome = "completed"
            THEN [plan |-> [scan.plan EXCEPT !.status = COMPLETED,
                                             !.completed_at = TRUE],
                  history |-> Append(history, entry)]
            ELSE IF outcome = "failed"
            THEN [plan |-> [scan.plan EXCEPT !.status = FAILED],
                  history |-> Append(history, entry)]
            ELSE LoopAlone(scan.plan, Append(history, entry))

\* execute_plan on the plan as built, with no other call under way: the plan
\* it leaves, the history entries it appends and the summary it returns
ExecutedAlone(plan) ==
    LET run == LoopAlone([Fresh(plan) EXCEPT !.status = ACTIVE], <<>>)
        left == [run.plan EXCEPT !.status = IF @ = ACTIVE THEN FAILED ELSE @]
    IN [plan |-> left, history |-> run.history, result |-> GetPlanResult(left)]

\* C28: with two calls on two different plans interleaved at the awaits of
\* the actions, a step of a call changes no plan but its own, and when a call
\* returns its plan (status, iteration counter, steps), the history filtered
\* by its plan id and the summary returned are those of the plan executed
\* alone.
C28_CallsOnDifferentPlansDoNotInterfere ==
    /\ [][\A t \in Tasks : task[t]' # task[t] =>
            \A q \in DOMAIN plans :
                q # task[t]'.plan_id => plans'[q] = plans[q]]_vars
    /\ [](\A t \in Tasks : Returned(t) =>
            LET alone == ExecutedAlone(PlanOf(t))
            IN /\ PlanOf(t) = alone.plan
               /\ GetExecutionHistory(task[t].plan_id) = alone.history
               /\ task[t].result = alone.result)

\* both calls have returned; the second call began while the first awaited
\* the action of its step, and its pass was recorded before the first call's
C28_Witness ==
    /\ \A t \in Tasks : Returned(t) /\ Len(PlanOf(t).steps) >= 1
    /\ \A t \in Tasks : \E i \in DOMAIN PlanOf(t).steps : PlanOf(t).steps[i].calls >= 1
    /\ task[2].overlapped /\ ~task[1].overlapped
    /\ Len(execution_history) >= 2
    /\ execution_history[1].plan_id = task[2].plan_id
    /\ execution_history[2].plan_id = task[1].plan_id

\* --------------------------------------------------------------- C29
\* the call of task t awaits the action of step i of plan p
Awaiting(t, p, i) ==
    /\ task[t].pc = "action"
    /\ task[t].plan_id = p
    /\ task[t].idx = i

\* the attempts on step i of the plan whose action raised
FailedAttempts(plan, i) ==
    Cardinality({k \in DOMAIN plan.log : plan.log[k].step = i /\ ~plan.log[k].ok})

\* C29: with execute_plan calls on the same plan interleaved at the awaits of
\* the actions, no step is awaited by two calls at once (the step a call
\* awaits is IN_PROGRESS, so that no scan takes it), and an attempt raises
\* retry_count at most once: the counter moves by one, with one invocation of
\* the action by the call that awaited it, and always equals the number of
\* attempts that raised.
C29_StepRunsInOneCallAtATime ==
    /\ [](\A p \in DOMAIN plans : \A i \in DOMAIN plans[p].steps :
            /\ Cardinality({t \in Tasks : Awaiting(t, p, i)}) <= 1
            /\ (\E t \in Tasks : Awaiting(t, p, i)) =>
                   plans[p].steps[i].status = IN_PROGRESS
            /\ plans[p].steps[i].retry_count = FailedAttempts(plans[p], i))
    /\ [][\A p \in DOMAIN plans : \A i \in DOMAIN plans[p].steps :
            (p \in DOMAIN plans' /\ i \in DOMAIN plans'[p].steps
             /\ plans'[p].steps[i].calls # plans[p].steps[i].calls) =>
                /\ plans'[p].steps[i].calls = plans[p].steps[i].calls + 1
                /\ plans'[p].steps[i].retry_count - plans[p].steps[i].retry_count
                       \in {0, 1}
                /\ \E t \in Tasks : Awaiting(t, p, i) /\ ~Awaiting(t, p, i)']_vars

\* a call awaits the second attempt of a step whose first attempt raised,
\* while the other call, on the same plan, is past that step in its own scan
C29_Witness ==
    \E t \in Tasks, u \in Tasks :
        /\ t # u
        /\ task[t].plan_id = task[u].plan_id
        /\ Awaiting(t, task[t].plan_id, task[t].idx)
        /\ PlanOf(t).steps[task[t].idx].action # "none"
        /\ PlanOf(t).steps[task[t].idx].retry_count = 1
        /\ PlanOf(t).steps[task[t].idx].calls = 1
        /\ task[u].pc = "scan"
        /\ task[u].idx > task[t].idx
        /\ task[t].overlapped

\* --------------------------------------------------------------- C30
\* how many times an identifier stands in a list
Occurrences(list, id) == Cardinality({k \in DOMAIN list : list[k] = id})

\* the task is recorded neither as completed nor as failed
Unrecorded(id) ==
    Occurrences(agent.completed_tasks, id) + Occurrences(agent.failed_tasks, id) = 0

\* C30: the action of a task is invoked at most max_retries + 1 times; a task
\* id stands at most once in completed_tasks and failed_tasks taken together;
\* a task queued or held by the processor is in neither list; an invocation
\* that raises with retries left records nothing and is followed by the task
\* being put at the front of the queue, and one that raises with no retry
\* left records the task as failed.
C30_TaskRunsAtMostMaxRetriesPlusOneTimes ==
    /\ [](\A id \in DOMAIN agent.tasks :
            /\ agent.tasks[id].calls <= agent.tasks[id].max_retries + 1
            /\ Occurrences(agent.completed_tasks, id)
                   + Occurrences(agent.failed_tasks, id) <= 1
            /\ (Occurrences(agent.task_queue, id) > 0 \/ agent.processor.task = id)
               => Unrecorded(id))
    /\ [][LET id == agent.processor.task
              t == agent.tasks[id]
          IN /\ (agent.processor.pc = "action" /\ agent'.processor.pc # "action"
                  /\ t.calls + 1 <= t.fails)
                => IF t.retry_count + 1 <= t.max_retries
                   THEN /\ agent'.processor = [pc |-> "backoff", task |-> id]
                        /\ agent'.completed_tasks = agent.completed_tasks
                        /\ agent'.failed_tasks = agent.failed_tasks
                   ELSE /\ agent'.failed_tasks = Append(agent.failed_tasks, id)
                        /\ agent'.completed_tasks = agent.completed_tasks
             /\ (agent.processor.pc = "backoff" /\ agent'.processor.pc # "backoff")
                => /\ agent'.task_queue = <<id>> \o agent.task_queue
                   /\ Unrecorded(id)']_vars

\* a task whose action always raises has been recorded as failed after
\* max_retries + 1 invocations, max_retries >= 1, and a task retried once has
\* been recorded as completed
C30_Witness ==
    \E a, b \in DOMAIN agent.tasks :
        /\ agent.tasks[a].max_retries >= 1
        /\ agent.tasks[a].calls = agent.tasks[a].max_retries + 1
        /\ Occurrences(agent.failed_tasks, a) = 1
        /\ agent.tasks[b].calls = 2
        /\ Occurrences(agent.completed_tasks, b) = 1

====
